---- MODULE Spec2Model ----
(***************************************************************************)
(* The content-generation job pipeline of kahaniyaa: the submission API    *)
(* (app/api/stories.py), the Celery tasks generate_story_task and          *)
(* generate_tts_task (app/workers/story_tasks.py) and the services they    *)
(* call (app/services/llm_service.py, app/services/tts_service.py).        *)
(*                                                                         *)
(* The stores are the tables `stories` and `jobs`; a task is a sequence of *)
(* steps, one per database commit or backend call, so that the tasks of    *)
(* several Celery workers interleave at exactly these points.              *)
(***************************************************************************)
EXTENDS Integers, Sequences, FiniteSets, TLC

\* ---------------------------------------------------------------- bounds
MaxStories == 1
MaxJobs == 2
MaxDeliveries == 3
NumWorkers == 2

StoryIds == 1..MaxStories
JobIds == 1..MaxJobs
Workers == 1..NumWorkers

\* ------------------------------------------------- enums (models.py 10-27)
StoryInputType == {"scenario", "image", "characters"}
StoryStatus == {"pending", "processing", "completed", "failed"}
JobStatus == {"queued", "processing", "completed", "failed"}
Terminal == {"completed", "failed"}

\* A nullable column holds <<>> (NULL) or <<v>>.
Null == <<>>
Some(v) == <<v>>

\* ------------------------------------------------------ rows of the tables
\* A primary key with no row is the row AbsentStory / AbsentJob, and the key of
\* a deleted row is the row DeletedStory / DeletedJob: keys are not used again.
AbsentStory ==
    [status |-> "absent", title |-> "", language |-> "", input_type |-> "",
     payload_ok |-> FALSE, story_json |-> Null, audio_urls |-> Null]

AbsentJob ==
    [status |-> "absent", story_id |-> 0, job_type |-> "", progress |-> 0,
     error_message |-> Null, result |-> Null, old |-> FALSE]

DeletedStory == [AbsentStory EXCEPT !.status = "deleted"]

DeletedJob == [AbsentJob EXCEPT !.status = "deleted"]

\* What .first() returns None for.
NoRow == {"absent", "deleted"}

\* ------------------------------------------- the Narrative Generator's reply
\* story_data as json.loads returns it: every key may be missing.
RawFull ==
    [title |-> Some("The Boat"),
     scenes |-> Some(<<
        [id |-> Some(1), narration |-> Some("Once"),
         dialogue |-> Some(<<[character |-> <<"K", "i", "n", "g", " ", "A", "r", "t", "h", "u", "r">>,
                              emotion |-> "cheerful"]>>)]
     >>)]

RawEmpty == [title |-> Null, scenes |-> Null]

LLMReplies ==
    { [kind |-> "error", data |-> RawEmpty],
      [kind |-> "garbage", data |-> RawEmpty],
      [kind |-> "json", data |-> RawEmpty],
      [kind |-> "json", data |-> RawFull] }

Get(opt, default) == IF opt = Null THEN default ELSE opt[1]

\* llm_service.py 45-62: the scenes of story_data, with the defaults of .get
RECURSIVE ParseScenes(_, _)
ParseScenes(raw, done) ==
    IF raw = <<>> THEN done
    ELSE ParseScenes(Tail(raw),
            Append(done,
                [id |-> Get(Head(raw).id, Len(done) + 1),
                 narration |-> Get(Head(raw).narration, ""),
                 dialogue |-> Get(Head(raw).dialogue, <<>>)]))

\* llm_service.py 64-73: StoryContent(title=..., scenes=...)
ParseStory(data) ==
    [title |-> Get(data.title, "Untitled Story"),
     scenes |-> ParseScenes(Get(data.scenes, <<>>), <<>>)]

\* The stories that generate_tts_task reads: a story of two scenes, numbered
\* out of order by the model, the second without narration.
RawTwo ==
    [title |-> Some("Two Scenes"),
     scenes |-> Some(<<
        [id |-> Some(2), narration |-> Some("Long ago"),
         dialogue |-> Some(<<[character |-> <<"G", "r", "a", "n", "d", "m", "a">>,
                              emotion |-> "gentle"],
                             [character |-> <<"T", "i", "m", "m", "y">>,
                              emotion |-> "excited"]>>)],
        [id |-> Some(1), narration |-> Null,
         dialogue |-> Some(<<[character |-> <<"Q", "u", "e", "e", "n">>,
                              emotion |-> "angry"]>>)]
     >>)]

TtsStories == {ParseStory(RawFull), ParseStory(RawTwo)}

Range(s) == {s[i] : i \in 1..Len(s)}

\* The names of the speakers of these stories
StoryCharacters ==
    {d.character :
        d \in UNION {Range(scene.dialogue) :
                       scene \in UNION {Range(story.scenes) : story \in TtsStories}}}

VARIABLES
    stories,        \* table stories: StoryIds -> row
    jobs,           \* table jobs: JobIds -> row
    queue,          \* the Celery messages published, with their deliveries
    task,           \* what each worker is running, and its local variables
    speech_config,  \* TTSService.speech_config is set (Azure key and region)
    voice_call,     \* a call of TTSService._get_character_type and of
                    \* TTSService.get_voice_for_language, with their results
    stories_db,     \* the dict stories_db of the story service, by story number
    utcnow          \* the clock of the story service, read as created_at

vars == <<stories, jobs, queue, task, speech_config, voice_call, stories_db, utcnow>>

NoMessage ==
    [name |-> "none", story_id |-> 0, input_type |-> "", payload_ok |-> FALSE,
     voice_preset |-> "", emotion |-> "", deliveries |-> 0, pending |-> FALSE]

IdleTask ==
    [pc |-> "idle", job_id |-> 0, story_id |-> 0, input_type |-> "",
     payload_ok |-> FALSE, story_content |-> Null, language |-> "",
     job_found |-> FALSE, units |-> <<>>, audio_urls |-> <<>>, synth |-> <<>>,
     exc |-> "", meta |-> 0, image_context |-> "", calls |-> <<>>,
     voice_preset |-> "", emotion |-> ""]

NoCall ==
    [speaker |-> <<>>, character_type |-> "", language |-> "", character |-> <<>>,
     voice |-> ""]

\* story-service/main.py: stories_db = {}; the key "story_<n>" is the number n
MaxCreates == 4
StoryNumbers == 1..(MaxCreates + 1)
NoStories == [n \in StoryNumbers |-> Null]

Init ==
    /\ stories = [s \in StoryIds |-> AbsentStory]
    /\ jobs = [j \in JobIds |-> AbsentJob]
    /\ queue = [j \in JobIds |-> NoMessage]
    /\ task = [w \in Workers |-> IdleTask]
    /\ speech_config \in BOOLEAN
    /\ voice_call = NoCall
    /\ stories_db = NoStories
    /\ utcnow = 0

\* ------------------------------------------------------------ submission
Languages == {"en"}

FreeStory(s) == stories[s].status = "absent" /\ \A r \in StoryIds : r < s => stories[r].status # "absent"
FreeJob(j) == jobs[j].status = "absent" /\ \A k \in JobIds : k < j => jobs[k].status # "absent"

\* stories.py 35-45: Story(..., status=StoryStatus.PROCESSING)
NewStory(it, ok, lang) ==
    [status |-> "processing", title |-> "Generating...", language |-> lang,
     input_type |-> it, payload_ok |-> ok, story_json |-> Null, audio_urls |-> Null]

\* stories.py 53-58 and 163-168: Job(id, story_id, job_type, status=QUEUED)
NewJob(s, type) ==
    [status |-> "queued", story_id |-> s, job_type |-> type, progress |-> 0,
     error_message |-> Null, result |-> Null, old |-> FALSE]

\* stories.py 25-86: POST /v1/stories
create_story(s, j, it, ok, lang) ==
    /\ FreeStory(s)
    /\ FreeJob(j)
    /\ stories' = [stories EXCEPT ![s] = NewStory(it, ok, lang)]
    /\ jobs' = [jobs EXCEPT ![j] = NewJob(s, "story_generation")]
    /\ queue' = [queue EXCEPT ![j] =
            [name |-> "generate_story_task", story_id |-> s, input_type |-> it,
             payload_ok |-> ok, voice_preset |-> "", emotion |-> "",
             deliveries |-> 0, pending |-> TRUE]]
    /\ UNCHANGED <<task, speech_config, voice_call, stories_db, utcnow>>

\* stories.py 154-159: the story must exist and be COMPLETED
MayRegenerate(s) == stories[s].status = "completed"

\* schemas.py 33-35: TTSRegenerateRequest(voice_preset, emotion = "neutral")
VoicePresets == {"en-US-GuyNeural", "en-US-JennyNeural"}
RequestEmotions == {"neutral", "excited"}

\* The request the pipeline's specifications submit: the default emotion and
\* one voice. SpecTts submits every request of VoicePresets \X RequestEmotions.
PlainRequests == {<<"en-US-GuyNeural", "neutral">>}

\* stories.py 146-188: POST /v1/stories/{story_id}/tts
regenerate_tts(s, j, voice_preset, emotion) ==
    /\ MayRegenerate(s)
    /\ FreeJob(j)
    /\ jobs' = [jobs EXCEPT ![j] = NewJob(s, "tts_generation")]
    /\ queue' = [queue EXCEPT ![j] =
            [name |-> "generate_tts_task", story_id |-> s, input_type |-> "",
             payload_ok |-> FALSE, voice_preset |-> voice_preset,
             emotion |-> emotion, deliveries |-> 0, pending |-> TRUE]]
    /\ UNCHANGED <<stories, task, speech_config, voice_call, stories_db, utcnow>>

\* ------------------------------------------------------- the work queue
\* A published message is delivered to an idle worker; delivery is
\* at-least-once, so a message may be delivered again (MaxDeliveries times in
\* all), while an earlier delivery is still running or after it has ended.
\* A message is `pending` while it waits in the queue, held by no worker.
Deliverable(w, j, name) ==
    /\ task[w].pc = "idle"
    /\ queue[j].name = name
    /\ queue[j].deliveries < MaxDeliveries

Delivered(j) == [queue EXCEPT ![j].deliveries = @ + 1, ![j].pending = FALSE]

\* ---------------------------------------------------- writes to the Job row
\* story_tasks.py 39-42 and 143-146
JobProcessing(row) == [row EXCEPT !.status = "processing", !.progress = 10]

\* A faulty task that returns with progress 100 and the status unwritten; C14
\* must reject it.
StoryJobCompleted_ProgressOnly(row, content) == [row EXCEPT !.progress = 100]

\* story_tasks.py 93-97
StoryJobCompleted(row, content) ==
    [row EXCEPT !.status = "completed", !.progress = 100,
                !.result = Some([story_generated |-> TRUE, title |-> content.title,
                                 audio_files_generated |-> 0])]

\* story_tasks.py 173-177
TtsJobCompleted(row, audio_urls) ==
    [row EXCEPT !.status = "completed", !.progress = 100,
                !.result = Some([story_generated |-> FALSE, title |-> "",
                                 audio_files_generated |-> Len(audio_urls)])]

\* A faulty handler that records the error but not the status; C4 must reject it.
JobFailed_StatusKept(row, exc) == [row EXCEPT !.error_message = Some(exc)]

\* story_tasks.py 109-112 and 189-192
JobFailed(row, exc) == [row EXCEPT !.status = "failed", !.error_message = Some(exc)]

\* `if job:` guards every write to the Job row
WriteJob(j, found, row) == IF found THEN [jobs EXCEPT ![j] = row] ELSE jobs

\* -------------------------------------------------- writes to the Story row
\* story_tasks.py 86-90
StoryCompleted(row, content) ==
    [row EXCEPT !.title = content.title, !.story_json = Some(content),
                !.status = "completed"]

\* A faulty handler that leaves the story as it is; C5 must reject it.
StoryFailed_Skipped(row) == row

\* story_tasks.py 116-118
StoryFailed(row) == [row EXCEPT !.status = "failed"]

\* A faulty task that also marks the story while its audio is stored; C12 must
\* reject it.
StoryAudio_Restatus(row, audio_urls) ==
    [row EXCEPT !.audio_urls = Some(audio_urls), !.status = "processing"]

\* story_tasks.py 169-170
StoryAudio(row, audio_urls) == [row EXCEPT !.audio_urls = Some(audio_urls)]

\* `if story:` guards the writes of generate_story_task
WriteStory(s, row) == IF stories[s].status \notin NoRow THEN [stories EXCEPT ![s] = row] ELSE stories

\* ------------------------------------------------------ generate_story_task
Raise(w, pc, exc) == [task EXCEPT ![w].pc = pc, ![w].exc = exc]

\* A call of a backend made by a run: the Scene Analyzer ("vision"), the
\* Narrative Generator ("llm") or the Speech Synthesizer ("tts"), with the
\* argument that matters here. task[w].calls lists the calls of the run.
Call(backend, arg) ==
    [backend |-> backend, arg |-> arg, unit |-> Null, voice |-> "", emotion |-> ""]

\* story_tasks.py 45, 58, 64: the progress that update_state publishes as the
\* task's meta once the branch is chosen (30 'Analyzing image' comes before the
\* call of the analyzer)
MetaAtDispatch(pc) == IF pc = "g_vision" THEN 30 ELSE 10

\* vision_service.py 86-113: the context string built from the analysis
ImageContexts == {"Scene: a boat", "Scene: a cat"}

\* A faulty dispatch that does not validate the payload; C28 must reject it.
Dispatch_Unvalidated(it, ok) ==
    IF it = "image" THEN <<"g_vision", "">> ELSE <<"g_llm", "">>

\* story_tasks.py 47-80: where the task goes after its first commit. The
\* payload is validated by ScenarioInput / ImageInput / CharactersInput; an
\* input_type matching no branch leaves story_content None (line 79).
Dispatch(it, ok) ==
    IF it \notin StoryInputType THEN <<"g_fail", "Failed to generate story content">>
    ELSE IF ~ok THEN <<"g_fail", "validation error">>
    ELSE IF it = "image" THEN <<"g_vision", "">>
    ELSE <<"g_llm", "">>

\* story_tasks.py 32-45: the task starts; the Job row becomes PROCESSING
StartStory(w, j) ==
    /\ Deliverable(w, j, "generate_story_task")
    /\ queue' = Delivered(j)
    /\ LET found == jobs[j].status \notin NoRow
           m == queue[j]
           d == Dispatch(m.input_type, m.payload_ok)
       IN /\ jobs' = WriteJob(j, found, JobProcessing(jobs[j]))
          /\ task' = [task EXCEPT ![w] =
                [IdleTask EXCEPT !.pc = d[1], !.exc = d[2], !.job_id = j,
                                 !.story_id = m.story_id, !.input_type = m.input_type,
                                 !.payload_ok = m.payload_ok, !.job_found = found,
                                 !.meta = MetaAtDispatch(d[1])]]
    /\ UNCHANGED <<stories, speech_config, voice_call, stories_db, utcnow>>

\* A faulty task that goes on to the Narrative Generator after the analyzer
\* has failed; C25 must reject it.
VisionFailed_Ignored(w, called) ==
    [task EXCEPT ![w].pc = "g_llm", ![w].calls = called]

\* vision_service.py 41-44, 82-84: analyze_image raises
VisionFailed(w, called) ==
    [Raise(w, "g_fail", "Failed to analyze image") EXCEPT ![w].calls = called]

\* story_tasks.py 58-64: vision_service.generate_story_context returns the
\* context or raises; 60 'Generating story from image' is published next
CallVision(w) ==
    /\ task[w].pc = "g_vision"
    /\ LET called == Append(task[w].calls, Call("vision", "image_url"))
       IN \/ \E context \in ImageContexts :
                task' = [task EXCEPT ![w].pc = "g_llm", ![w].image_context = context,
                                     ![w].meta = 60, ![w].calls = called]
          \/ task' = VisionFailed(w, called)
    /\ UNCHANGED <<stories, jobs, queue, speech_config, voice_call, stories_db, utcnow>>

\* llm_service.py 30-76: the reply of openai is parsed, or the call raises
LLMResult(reply) ==
    IF reply.kind = "json" THEN Some(ParseStory(reply.data)) ELSE Null

\* story_tasks.py 49-80: the Narrative Generator call of the three branches
\* story_tasks.py 51-53, 65-68, 72-77: what the branch passes to the generator:
\* generate_story_from_image gets the context the analyzer returned
PromptOf(t) == IF t.input_type = "image" THEN t.image_context ELSE "input_payload"

\* 80 'Saving story' is published once the content is there (line 83)
CallLLM(w) ==
    /\ task[w].pc = "g_llm"
    /\ \E reply \in LLMReplies :
          LET content == LLMResult(reply)
              called == Append(task[w].calls, Call("llm", PromptOf(task[w])))
          IN task' = IF content = Null
                     THEN [Raise(w, "g_fail", "Failed to generate story")
                              EXCEPT ![w].calls = called]
                     ELSE [task EXCEPT ![w].pc = "g_save_story",
                                       ![w].story_content = content,
                                       ![w].meta = 80, ![w].calls = called]
    /\ UNCHANGED <<stories, jobs, queue, speech_config, voice_call, stories_db, utcnow>>

\* story_tasks.py 82-90: the story is saved as COMPLETED
SaveStory(w) ==
    /\ task[w].pc = "g_save_story"
    /\ LET s == task[w].story_id
       IN stories' = WriteStory(s, StoryCompleted(stories[s], task[w].story_content[1]))
    /\ task' = [task EXCEPT ![w].pc = "g_save_job"]
    /\ UNCHANGED <<jobs, queue, speech_config, voice_call, stories_db, utcnow>>

\* story_tasks.py 92-105: the Job row becomes COMPLETED and the task returns
CompleteStoryJob(w) ==
    /\ task[w].pc = "g_save_job"
    /\ LET j == task[w].job_id
       IN jobs' = WriteJob(j, task[w].job_found,
                           StoryJobCompleted(jobs[j], task[w].story_content[1]))
    /\ task' = [task EXCEPT ![w] = IdleTask]
    /\ UNCHANGED <<stories, queue, speech_config, voice_call, stories_db, utcnow>>

\* story_tasks.py 107-112: the handler records the error on the Job row
FailStoryJob(w) ==
    /\ task[w].pc = "g_fail"
    /\ LET j == task[w].job_id
       IN jobs' = WriteJob(j, task[w].job_found, JobFailed(jobs[j], task[w].exc))
    /\ task' = [task EXCEPT ![w].pc = "g_fail_story"]
    /\ UNCHANGED <<stories, queue, speech_config, voice_call, stories_db, utcnow>>

\* story_tasks.py 114-124: the handler marks the story FAILED and re-raises
FailStory(w) ==
    /\ task[w].pc = "g_fail_story"
    /\ LET s == task[w].story_id
       IN stories' = WriteStory(s, StoryFailed(stories[s]))
    /\ task' = [task EXCEPT ![w] = IdleTask]
    /\ UNCHANGED <<jobs, queue, speech_config, voice_call, stories_db, utcnow>>

\* --------------------------------------------- TTSService._get_character_type
\* A str is the sequence of its characters.
MaxWords == 3

UpperCase == <<"A", "B", "C", "D", "E", "F", "G", "H", "I", "J", "K", "L", "M", "N", "O", "P", "Q", "R", "S", "T", "U", "V", "W", "X", "Y", "Z">>

LowerCase == <<"a", "b", "c", "d", "e", "f", "g", "h", "i", "j", "k", "l", "m", "n", "o", "p", "q", "r", "s", "t", "u", "v", "w", "x", "y", "z">>

\* str.lower() on one character
LowerOf ==
    [c \in {UpperCase[i] : i \in 1..Len(UpperCase)} |->
        LowerCase[CHOOSE i \in 1..Len(UpperCase) : UpperCase[i] = c]]

LowerChar(c) == IF c \in DOMAIN LowerOf THEN LowerOf[c] ELSE c

\* tts_service.py 157: character_name.lower()
lower(s) == [i \in 1..Len(s) |-> LowerChar(s[i])]

\* `word in name_lower`: word occurs in s as a substring
Contains(word, s) ==
    \E i \in 0..(Len(s) - Len(word)) : \A k \in 1..Len(word) : s[i + k] = word[k]

\* tts_service.py 159-166: the keyword lists
ChildWords ==
    {<<"c", "h", "i", "l", "d">>,
    <<"k", "i", "d">>,
    <<"l", "i", "t", "t", "l", "e">>,
    <<"y", "o", "u", "n", "g">>}

ElderlyWords ==
    {<<"o", "l", "d">>,
    <<"e", "l", "d", "e", "r">>,
    <<"g", "r", "a", "n", "d">>}

AdultMaleWords ==
    {<<"m", "a", "n">>,
    <<"b", "o", "y">>,
    <<"f", "a", "t", "h", "e", "r">>,
    <<"d", "a", "d">>,
    <<"k", "i", "n", "g">>,
    <<"p", "r", "i", "n", "c", "e">>}

AdultFemaleWords ==
    {<<"w", "o", "m", "a", "n">>,
    <<"g", "i", "r", "l">>,
    <<"m", "o", "t", "h", "e", "r">>,
    <<"m", "o", "m">>,
    <<"q", "u", "e", "e", "n">>,
    <<"p", "r", "i", "n", "c", "e", "s", "s">>}

\* A faulty classifier that compares the name as it is written; C20 must
\* reject it.
_get_character_type_Cased(character_name) ==
    IF \E word \in ChildWords : Contains(word, character_name) THEN "child"
    ELSE IF \E word \in ElderlyWords : Contains(word, character_name) THEN "elderly"
    ELSE IF \E word \in AdultMaleWords : Contains(word, character_name) THEN "adult_male"
    ELSE IF \E word \in AdultFemaleWords : Contains(word, character_name) THEN "adult_female"
    ELSE "narrator"

\* tts_service.py 155-168
_get_character_type(character_name) ==
    LET name_lower == lower(character_name)
    IN IF \E word \in ChildWords : Contains(word, name_lower) THEN "child"
       ELSE IF \E word \in ElderlyWords : Contains(word, name_lower) THEN "elderly"
       ELSE IF \E word \in AdultMaleWords : Contains(word, name_lower) THEN "adult_male"
       ELSE IF \E word \in AdultFemaleWords : Contains(word, name_lower) THEN "adult_female"
       ELSE "narrator"

\* The words that the speaker names of a story are made of.
NameWords ==
    {<<"L", "i", "t", "t", "l", "e">>,
    <<"T", "i", "m", "m", "y">>,
    <<"G", "r", "a", "n", "d", "m", "a">>,
    <<"R", "o", "s", "e">>,
    <<"K", "i", "n", "g">>,
    <<"A", "r", "t", "h", "u", "r">>,
    <<"Q", "u", "e", "e", "n">>,
    <<"M", "i", "r", "a">>,
    <<"W", "h", "i", "s", "k", "e", "r", "s">>,
    <<"t", "h", "e">>,
    <<"C", "a", "t">>}

\* The words of ws with one space between them.
RECURSIVE JoinWords(_)
JoinWords(ws) ==
    IF ws = <<>> THEN <<>>
    ELSE IF Len(ws) = 1 THEN ws[1]
    ELSE ws[1] \o <<" ">> \o JoinWords(Tail(ws))

\* schemas.py 39-40: DialogueLine.character is any str; here up to MaxWords
\* words, and every keyword by itself
SpeakerNames ==
    {JoinWords(ws) : ws \in UNION {[1..n -> NameWords] : n \in 0..MaxWords}}
    \cup ChildWords \cup ElderlyWords \cup AdultMaleWords \cup AdultFemaleWords

\* tts_service.py 21-43: voice_map
voice_map ==
    [l \in {"en", "hi", "ta"} |->
        CASE l = "en" ->
               [narrator |-> "en-US-AriaNeural", child |-> "en-US-JennyNeural",
                adult_male |-> "en-US-GuyNeural", adult_female |-> "en-US-AriaNeural",
                elderly |-> "en-US-DavisNeural"]
          [] l = "hi" ->
               [narrator |-> "hi-IN-SwaraNeural", child |-> "hi-IN-SwaraNeural",
                adult_male |-> "hi-IN-MadhurNeural", adult_female |-> "hi-IN-SwaraNeural",
                elderly |-> "hi-IN-MadhurNeural"]
          [] l = "ta" ->
               [narrator |-> "ta-IN-PallaviNeural", child |-> "ta-IN-PallaviNeural",
                adult_male |-> "ta-IN-ValluvarNeural", adult_female |-> "ta-IN-PallaviNeural",
                elderly |-> "ta-IN-ValluvarNeural"]]

\* The characters of the keys of voice_map[l].
Spelling(class) ==
    CASE class = "narrator" -> <<"n", "a", "r", "r", "a", "t", "o", "r">>
      [] class = "child" -> <<"c", "h", "i", "l", "d">>
      [] class = "adult_male" -> <<"a", "d", "u", "l", "t", "_", "m", "a", "l", "e">>
      [] class = "adult_female" -> <<"a", "d", "u", "l", "t", "_", "f", "e", "m", "a", "l", "e">>
      [] class = "elderly" -> <<"e", "l", "d", "e", "r", "l", "y">>

\* A faulty lookup that gives an unknown language the narrator of "en"; C21
\* must reject it.
get_voice_for_language_Narrator(language, character) ==
    IF language \notin DOMAIN voice_map THEN voice_map["en"]["narrator"]
    ELSE LET lang_voices == voice_map[language]
             key == lower(character)
         IN IF \E c \in DOMAIN lang_voices : Spelling(c) = key
            THEN lang_voices[CHOOSE c \in DOMAIN lang_voices : Spelling(c) = key]
            ELSE lang_voices["narrator"]

\* tts_service.py 19-46 (the parameter emotion is not used)
get_voice_for_language(language, character) ==
    LET lang_voices == IF language \in DOMAIN voice_map THEN voice_map[language]
                       ELSE voice_map["en"]
        key == lower(character)
    IN IF \E c \in DOMAIN lang_voices : Spelling(c) = key
       THEN lang_voices[CHOOSE c \in DOMAIN lang_voices : Spelling(c) = key]
       ELSE lang_voices["narrator"]

\* -------------------------------------------------------- generate_tts_task
\* tts_service.py 95-111: the dialogue lines of a scene, enumerate() from 0
RECURSIVE DialogueUnits(_, _, _)
DialogueUnits(scene_id, dialogue, i) ==
    IF i >= Len(dialogue) THEN <<>>
    ELSE <<[scene |-> scene_id, kind |-> "dialogue", index |-> i,
            character |-> dialogue[i + 1].character,
            emotion |-> dialogue[i + 1].emotion]>>
         \o DialogueUnits(scene_id, dialogue, i + 1)

\* A faulty loop that synthesizes the narration of every scene, empty or not;
\* C24 must reject it.
NarrationUnits_Always(scene) ==
    <<[scene |-> scene.id, kind |-> "narration", index |-> 0,
       character |-> Spelling("narrator"), emotion |-> "calm"]>>

\* tts_service.py 86-92: a scene is narrated only if scene.narration is non-empty
NarrationUnits(scene) ==
    IF scene.narration # ""
    THEN <<[scene |-> scene.id, kind |-> "narration", index |-> 0,
            character |-> Spelling("narrator"), emotion |-> "calm"]>>
    ELSE <<>>

\* tts_service.py 85-111: the calls of _synthesize_speech, in the order made
RECURSIVE StoryUnits(_)
StoryUnits(scenes) ==
    IF scenes = <<>> THEN <<>>
    ELSE NarrationUnits(Head(scenes))
         \o DialogueUnits(Head(scenes).id, Head(scenes).dialogue, 0)
         \o StoryUnits(Tail(scenes))

\* tts_service.py 90, 106-109: the file synthesized for a unit, by its prefix
Asset(unit) == [scene |-> unit.scene, kind |-> unit.kind, index |-> unit.index]

\* tts_service.py 97-98: self._get_character_type(dialogue.character), for the
\* speakers of the stories
CharacterTypes == [name \in StoryCharacters |-> _get_character_type(name)]

\* tts_service.py 88 and 96-100: the voice a unit is synthesized with
VoiceOf(language, unit) ==
    IF unit.kind = "narration"
    THEN get_voice_for_language(language, Spelling("narrator"))
    ELSE get_voice_for_language(language, Spelling(CharacterTypes[unit.character]))

\* story_tasks.py 162-164 and tts_service.py 78-111: one call of
\* _synthesize_speech. generate_tts_task passes story_content and
\* story.language on; its parameters voice_preset and emotion go nowhere.
SynthesisCall(language, unit, voice_preset, emotion) ==
    [backend |-> "tts", arg |-> "", unit |-> Some(Asset(unit)),
     voice |-> VoiceOf(language, unit), emotion |-> unit.emotion]

\* A faulty loop that appends the result of a failed call too; C7 must reject it.
Collect_Unchecked(audio_urls, unit, ok) == Append(audio_urls, Asset(unit))

\* tts_service.py 91-92, 110-111: a file is appended, None is dropped
Collect(audio_urls, unit, ok) ==
    IF ok THEN Append(audio_urls, Asset(unit)) ELSE audio_urls

\* story_tasks.py 137-146: the task starts; the Job row becomes PROCESSING
StartTts(w, j) ==
    /\ Deliverable(w, j, "generate_tts_task")
    /\ queue' = Delivered(j)
    /\ LET found == jobs[j].status \notin NoRow
       IN /\ jobs' = WriteJob(j, found, JobProcessing(jobs[j]))
          /\ task' = [task EXCEPT ![w] =
                [IdleTask EXCEPT !.pc = "t_load", !.job_id = j,
                                 !.story_id = queue[j].story_id, !.job_found = found,
                                 !.voice_preset = queue[j].voice_preset,
                                 !.emotion = queue[j].emotion]]
    /\ UNCHANGED <<stories, speech_config, voice_call, stories_db, utcnow>>

\* story_tasks.py 150: `if not story or not story.story_json`
StoryUnusable(row) == row.status \in NoRow \/ row.story_json = Null

\* story_tasks.py 148-164 and tts_service.py 80-83: the story is loaded and
\* the synthesis loop is entered, or the task raises
LoadStory(w) ==
    /\ task[w].pc = "t_load"
    /\ LET row == stories[task[w].story_id]
       IN task' =
            IF StoryUnusable(row)
            THEN Raise(w, "t_fail", "Story not found or not completed")
            ELSE IF ~speech_config
            THEN [Raise(w, "t_fail", "Azure Speech service not configured")
                     EXCEPT ![w].meta = 40]
            ELSE LET units == StoryUnits(row.story_json[1].scenes)
                 IN [task EXCEPT ![w].pc = IF units = <<>> THEN "t_save" ELSE "t_synth",
                                 ![w].story_content = row.story_json,
                                 ![w].language = row.language,
                                 ![w].units = units,
                                 ![w].meta = IF units = <<>> THEN 80 ELSE 40]
    /\ UNCHANGED <<stories, jobs, queue, speech_config, voice_call, stories_db, utcnow>>

\* tts_service.py 125-153: one call of _synthesize_speech, which returns a
\* file or None (it never raises), within the loop of lines 85-111
Synthesize(w) ==
    /\ task[w].pc = "t_synth"
    /\ LET n == Len(task[w].synth) + 1
           last == n = Len(task[w].units)
           called == Append(task[w].calls,
                            SynthesisCall(task[w].language, task[w].units[n],
                                          task[w].voice_preset, task[w].emotion))
       IN \E ok \in BOOLEAN :
             task' = [task EXCEPT
                ![w].synth = Append(@, ok),
                ![w].audio_urls = Collect(@, task[w].units[n], ok),
                ![w].calls = called,
                ![w].meta = IF last THEN 80 ELSE @,
                ![w].pc = IF last THEN "t_save" ELSE "t_synth"]
    /\ UNCHANGED <<stories, jobs, queue, speech_config, voice_call, stories_db, utcnow>>

\* story_tasks.py 166-170: story.audio_urls = audio_urls
SaveAudio(w) ==
    /\ task[w].pc = "t_save"
    /\ LET s == task[w].story_id
       IN stories' = [stories EXCEPT ![s] = StoryAudio(stories[s], task[w].audio_urls)]
    /\ task' = [task EXCEPT ![w].pc = "t_complete"]
    /\ UNCHANGED <<jobs, queue, speech_config, voice_call, stories_db, utcnow>>

\* story_tasks.py 172-185: the Job row becomes COMPLETED and the task returns
CompleteTtsJob(w) ==
    /\ task[w].pc = "t_complete"
    /\ LET j == task[w].job_id
       IN jobs' = WriteJob(j, task[w].job_found,
                           TtsJobCompleted(jobs[j], task[w].audio_urls))
    /\ task' = [task EXCEPT ![w] = IdleTask]
    /\ UNCHANGED <<stories, queue, speech_config, voice_call, stories_db, utcnow>>

\* story_tasks.py 187-198: the handler records the error and re-raises
FailTtsJob(w) ==
    /\ task[w].pc = "t_fail"
    /\ LET j == task[w].job_id
       IN jobs' = WriteJob(j, task[w].job_found, JobFailed(jobs[j], task[w].exc))
    /\ task' = [task EXCEPT ![w] = IdleTask]
    /\ UNCHANGED <<stories, queue, speech_config, voice_call, stories_db, utcnow>>

\* A run of Job j is in progress on some worker.
Running(j) == \E w \in Workers : task[w].pc # "idle" /\ task[w].job_id = j

\* --------------------------------------------------------- specification
Next ==
    \/ \E s \in StoryIds, j \in JobIds, it \in StoryInputType, ok \in BOOLEAN,
          lang \in Languages : create_story(s, j, it, ok, lang)
    \/ \E s \in StoryIds, j \in JobIds, r \in PlainRequests :
          regenerate_tts(s, j, r[1], r[2])
    \/ \E w \in Workers, j \in JobIds : StartStory(w, j)
    \/ \E w \in Workers : CallVision(w)
    \/ \E w \in Workers : CallLLM(w)
    \/ \E w \in Workers : SaveStory(w)
    \/ \E w \in Workers : CompleteStoryJob(w)
    \/ \E w \in Workers : FailStoryJob(w)
    \/ \E w \in Workers : FailStory(w)
    \/ \E w \in Workers, j \in JobIds : StartTts(w, j)
    \/ \E w \in Workers : LoadStory(w)
    \/ \E w \in Workers : Synthesize(w)
    \/ \E w \in Workers : SaveAudio(w)
    \/ \E w \in Workers : CompleteTtsJob(w)
    \/ \E w \in Workers : FailTtsJob(w)

Spec == Init /\ [][Next]_vars

\* ------------------------------------------------- deletion of stored rows
\* Rows are deleted only while no task holds them: an UPDATE of a row deleted
\* under a running task is a failed commit, which this model leaves out.

\* stories.py 190-204: DELETE /v1/stories/{story_id}
delete_story(s) ==
    /\ stories[s].status \notin NoRow
    /\ \A w \in Workers : task[w].story_id # s
    /\ stories' = [stories EXCEPT ![s] = DeletedStory]
    /\ UNCHANGED <<jobs, queue, task, speech_config, voice_call, stories_db, utcnow>>

\* story_tasks.py 210: a week passes, the Jobs stored now are older than
\* cutoff_date from then on
SevenDaysPass ==
    /\ \E j \in JobIds : jobs[j].status \notin NoRow /\ ~jobs[j].old
    /\ jobs' = [j \in JobIds |->
                  IF jobs[j].status \in NoRow THEN jobs[j]
                  ELSE [jobs[j] EXCEPT !.old = TRUE]]
    /\ UNCHANGED <<stories, queue, task, speech_config, voice_call, stories_db, utcnow>>

\* A faulty query that selects by age alone; C27 must reject it.
OldJobs_AnyStatus == {j \in JobIds : jobs[j].old /\ jobs[j].status \notin NoRow}

\* story_tasks.py 212-215: the Jobs that the query of cleanup_old_jobs selects
OldJobs == {j \in JobIds : jobs[j].old /\ jobs[j].status \in {"completed", "failed"}}

\* story_tasks.py 201-230: the periodic task deletes the rows selected
cleanup_old_jobs ==
    /\ OldJobs # {}
    /\ \A j \in OldJobs : ~Running(j)
    /\ jobs' = [j \in JobIds |-> IF j \in OldJobs THEN DeletedJob ELSE jobs[j]]
    /\ UNCHANGED <<stories, queue, task, speech_config, voice_call, stories_db, utcnow>>

NextAdmin ==
    \/ Next
    \/ \E s \in StoryIds : delete_story(s)
    \/ SevenDaysPass
    \/ cleanup_old_jobs

SpecAdmin == Init /\ [][NextAdmin]_vars

\* ------------------------------------------- worker deaths and redelivery
\* The broker settings of app.workers.celery_app are modelled from the design:
\* a worker holds the message it runs under a lease, the message is
\* acknowledged when the task returns or raises, and the message of a worker
\* that dies goes back to the queue.

\* A step of the task that worker w is running.
TaskStep(w) ==
    \/ CallVision(w)
    \/ CallLLM(w)
    \/ SaveStory(w)
    \/ CompleteStoryJob(w)
    \/ FailStoryJob(w)
    \/ FailStory(w)
    \/ LoadStory(w)
    \/ Synthesize(w)
    \/ SaveAudio(w)
    \/ CompleteTtsJob(w)
    \/ FailTtsJob(w)

\* A message waiting in the queue is leased to an idle worker.
LeasedStartStory(w, j) == queue[j].pending /\ StartStory(w, j)

LeasedStartTts(w, j) == queue[j].pending /\ StartTts(w, j)

\* The worker process dies in the middle of a task: nothing more is written,
\* and its message, not acknowledged, is pending again. A worker dies only
\* while its message may be delivered once more.
Crash(w) ==
    /\ task[w].pc # "idle"
    /\ queue[task[w].job_id].deliveries < MaxDeliveries
    /\ task' = [task EXCEPT ![w] = IdleTask]
    /\ queue' = [queue EXCEPT ![task[w].job_id].pending = TRUE]
    /\ UNCHANGED <<stories, jobs, speech_config, voice_call, stories_db, utcnow>>

NextLive ==
    \/ \E s \in StoryIds, j \in JobIds, it \in StoryInputType, ok \in BOOLEAN,
          lang \in Languages : create_story(s, j, it, ok, lang)
    \/ \E s \in StoryIds, j \in JobIds, r \in PlainRequests :
          regenerate_tts(s, j, r[1], r[2])
    \/ \E w \in Workers, j \in JobIds : LeasedStartStory(w, j)
    \/ \E w \in Workers, j \in JobIds : LeasedStartTts(w, j)
    \/ \E w \in Workers : TaskStep(w)
    \/ \E w \in Workers : Crash(w)

\* Delivery is fair and a backend call returns: a pending message is
\* delivered in the end, and a running task takes its next step.
Fairness ==
    /\ \A j \in JobIds :
          WF_vars(\E w \in Workers : LeasedStartStory(w, j) \/ LeasedStartTts(w, j))
    /\ \A w \in Workers : WF_vars(TaskStep(w))

SpecLive == Init /\ [][NextLive]_vars /\ Fairness

\* Arguments of get_voice_for_language: languages in and out of the table,
\* classes as the keys spell them, in other case, and unknown ones.
LanguageArgs == {"en", "hi", "ta", "fr", "EN", ""}

CharacterArgs ==
    {Spelling(c) : c \in DOMAIN voice_map["en"]}
    \cup {<<"C", "h", "i", "l", "d">>,
          <<"E", "L", "D", "E", "R", "L", "Y">>,
          <<"r", "o", "b", "o", "t">>,
          <<>>}

\* The classifier is called for one speaker name.
InitVoice ==
    /\ stories = [s \in StoryIds |-> AbsentStory]
    /\ jobs = [j \in JobIds |-> AbsentJob]
    /\ queue = [j \in JobIds |-> NoMessage]
    /\ task = [w \in Workers |-> IdleTask]
    /\ speech_config = TRUE
    /\ \E name \in SpeakerNames : voice_call = [NoCall EXCEPT !.speaker = name]
    /\ stories_db = NoStories
    /\ utcnow = 0

\* tts_service.py 97-98: self._get_character_type(dialogue.character)
Classify ==
    /\ voice_call.character_type = ""
    /\ voice_call.voice = ""
    /\ voice_call' = [voice_call EXCEPT
                         !.character_type = _get_character_type(voice_call.speaker)]
    /\ UNCHANGED <<stories, jobs, queue, task, speech_config, stories_db, utcnow>>

\* tts_service.py 96-100: the voice of a dialogue line, by the class of its
\* speaker
DialogueVoice(language) ==
    /\ voice_call.character_type # ""
    /\ voice_call.voice = ""
    /\ LET character == Spelling(voice_call.character_type)
       IN voice_call' = [voice_call EXCEPT
                            !.language = language, !.character = character,
                            !.voice = get_voice_for_language(language, character)]
    /\ UNCHANGED <<stories, jobs, queue, task, speech_config, stories_db, utcnow>>

\* tts_service.py 19-46: a call of get_voice_for_language by itself
SelectVoice(language, character) ==
    /\ voice_call.speaker = <<>>
    /\ voice_call.character_type = ""
    /\ voice_call.voice = ""
    /\ voice_call' = [voice_call EXCEPT
                         !.language = language, !.character = character,
                         !.voice = get_voice_for_language(language, character)]
    /\ UNCHANGED <<stories, jobs, queue, task, speech_config, stories_db, utcnow>>

NextVoice ==
    \/ Classify
    \/ \E language \in LanguageArgs : DialogueVoice(language)
    \/ \E language \in LanguageArgs, character \in CharacterArgs :
          SelectVoice(language, character)

SpecVoice == InitVoice /\ [][NextVoice]_vars

\* ------------------------------------------------ audio regeneration alone
\* A story that generate_story_task completed, whose Job rows cleanup_old_jobs
\* has deleted since.
InitTts ==
    /\ \E content \in TtsStories, lang \in {"en", "hi"} :
          stories = [s \in StoryIds |->
                        StoryCompleted(NewStory("scenario", TRUE, lang), content)]
    /\ jobs = [j \in JobIds |-> AbsentJob]
    /\ queue = [j \in JobIds |-> NoMessage]
    /\ task = [w \in Workers |-> IdleTask]
    /\ speech_config \in BOOLEAN
    /\ voice_call = NoCall
    /\ stories_db = NoStories
    /\ utcnow = 0

\* Each message is delivered once here: what a run synthesizes does not depend
\* on the other deliveries, which Spec explores.
FirstStartTts(w, j) == queue[j].deliveries = 0 /\ StartTts(w, j)

NextTts ==
    \/ \E s \in StoryIds, j \in JobIds, voice_preset \in VoicePresets,
          emotion \in RequestEmotions : regenerate_tts(s, j, voice_preset, emotion)
    \/ \E w \in Workers, j \in JobIds : FirstStartTts(w, j)
    \/ \E w \in Workers : LoadStory(w)
    \/ \E w \in Workers : Synthesize(w)
    \/ \E w \in Workers : SaveAudio(w)
    \/ \E w \in Workers : CompleteTtsJob(w)
    \/ \E w \in Workers : FailTtsJob(w)

SpecTts == InitTts /\ [][NextTts]_vars

\* ---------------------------------------------------------- the story service
\* services/story-service/main.py: a second, stand-alone service that keeps its
\* stories in the dict stories_db.

\* len(stories_db)
DbLen(db) == Cardinality({n \in StoryNumbers : db[n] # Null})

\* main.py 37-51: the text the model returns, as lines with their lengths; an
\* exception of the client is caught and a placeholder text returned
ServiceReplies ==
    { [kind |-> "text", lines |-> <<[text |-> "The Boat", length |-> 8],
                                    [text |-> "A boat sailed.", length |-> 14]>>],
      [kind |-> "text", lines |-> <<[text |-> "A very long opening sentence",
                                     length |-> 120]>>],
      [kind |-> "error", lines |-> <<>>] }

generate_story(reply) ==
    IF reply.kind = "text" THEN reply.lines
    ELSE <<[text |-> "Once upon a time... [Story generation temporarily unavailable]",
            length |-> 66]>>

\* main.py 170-171: the first line, if shorter than 100 characters
StoryTitle(lines, db) ==
    IF lines # <<>> /\ lines[1].length < 100 THEN <<lines[1].text>>
    ELSE <<"Story", DbLen(db) + 1>>

\* main.py 174: story_id = f"story_{len(stories_db) + 1}"
story_id(db, now) == DbLen(db) + 1

ServiceInputTypes == {"scenario", "image", "characters", "poem"}

\* main.py 125-198: POST /v1/stories/ of the story service. An input_type
\* outside the three branches and a payload that does not validate raise, and
\* nothing is stored.
service_create_story(it, ok, reply) ==
    /\ utcnow < MaxCreates
    /\ IF it \in StoryInputType /\ ok
       THEN LET content == generate_story(reply)
                id == story_id(stories_db, utcnow)
            IN /\ stories_db' = [stories_db EXCEPT ![id] =
                      Some([id |-> id, title |-> StoryTitle(content, stories_db),
                            content |-> content, input_type |-> it,
                            created_at |-> utcnow])]
               /\ utcnow' = utcnow + 1
       ELSE UNCHANGED <<stories_db, utcnow>>
    /\ UNCHANGED <<stories, jobs, queue, task, speech_config, voice_call>>

\* main.py 214-221: DELETE /v1/stories/{story_id} of the story service
service_delete_story(n) ==
    /\ stories_db[n] # Null
    /\ stories_db' = [stories_db EXCEPT ![n] = Null]
    /\ UNCHANGED <<stories, jobs, queue, task, speech_config, voice_call, utcnow>>

NextService ==
    \/ \E it \in ServiceInputTypes, ok \in BOOLEAN, reply \in ServiceReplies :
          service_create_story(it, ok, reply)
    \/ \E n \in StoryNumbers : service_delete_story(n)

SpecService == Init /\ [][NextService]_vars

\* ------------------------------------------------------------ properties
\* The step is taken by the task that worker w is running.
StepOf(w) == task[w].pc # "idle" /\ task'[w] # task[w]

\* The run of worker w returns or raises in this step.
Exits(w) == task[w].pc # "idle" /\ task'[w].pc = "idle"

OutcomesOf(synth) == {synth[i] : i \in 1..Len(synth)}

\* C1: a run invoked for a Job that is already COMPLETED or FAILED returns at
\* once: it starts no work (so no backend call follows) and leaves the Job and
\* Content rows as they are.
C1_IdempotentReentry ==
    [][\A j \in JobIds :
          (queue'[j].deliveries > queue[j].deliveries /\ jobs[j].status \in Terminal)
          => (jobs' = jobs /\ stories' = stories /\ task' = task)]_vars

\* C2: no two Jobs of the same story are PROCESSING at the same time.
C2_MutualExclusion ==
    \A j1 \in JobIds, j2 \in JobIds :
        (j1 # j2 /\ jobs[j1].status = "processing" /\ jobs[j2].status = "processing")
        => jobs[j1].story_id # jobs[j2].story_id

\* C3: once a story_generation Job is COMPLETED or FAILED and its runs have
\* returned, the story has the same status as the Job.
C3_StateCoupling ==
    \A j \in JobIds :
        (jobs[j].job_type = "story_generation" /\ jobs[j].status \in Terminal
         /\ ~Running(j) /\ stories[jobs[j].story_id].status # "absent")
        => stories[jobs[j].story_id].status = jobs[j].status

\* C4: a Job whose task has been invoked and is not running any more (every
\* run of it has returned or raised) is COMPLETED or FAILED, never QUEUED or
\* PROCESSING.
C4_JobTerminalOnExit ==
    \A j \in JobIds :
        (jobs[j].status # "absent" /\ queue[j].deliveries > 0 /\ ~Running(j))
        => jobs[j].status \in Terminal

\* C4 witness: a story_generation run has raised after the Narrative Generator
\* failed; its Job is FAILED and no run of it is in progress.
C4_Witness ==
    \E j \in JobIds :
        /\ jobs[j].job_type = "story_generation"
        /\ jobs[j].error_message = Some("Failed to generate story")
        /\ jobs[j].status = "failed"
        /\ ~Running(j)

\* C5: when a generate_story_task run returns or raises, the story is
\* COMPLETED or FAILED, and from then on it never is PROCESSING or PENDING.
C5_ContentSettled ==
    [][\A w \in Workers :
          LET s == task[w].story_id
          IN /\ (Exits(w) /\ task[w].pc \in {"g_save_job", "g_fail_story"}
                 /\ stories'[s].status # "absent")
                => stories'[s].status \in Terminal
             /\ \A r \in StoryIds :
                  stories[r].status \in Terminal => stories'[r].status \in Terminal]_vars

\* C5 witness: a run has raised after the Scene Analyzer failed; the story is
\* FAILED.
C5_Witness ==
    \E j \in JobIds :
        /\ jobs[j].error_message = Some("Failed to analyze image")
        /\ ~Running(j)
        /\ stories[jobs[j].story_id].status = "failed"

\* The run of worker w is past its backend calls: it goes on to mark its Job
\* COMPLETED.
Completing(w) == task[w].pc \in {"g_save_story", "g_save_job", "t_save", "t_complete"}

\* C6: Job.progress stays within 0..100; no write to the progress of a
\* PROCESSING Job lowers it; and during a run that ends COMPLETED the progress
\* of its Job is never lowered and is 100 when the run returns.
C6_MonotonicProgress ==
    [][\A j \in JobIds :
          /\ jobs'[j].progress \in 0..100
          /\ jobs[j].status = "processing" => jobs'[j].progress >= jobs[j].progress
          /\ \A w \in Workers :
                (Completing(w) /\ task[w].job_id = j)
                => /\ jobs'[j].progress >= jobs[j].progress
                   /\ Exits(w) => jobs'[j].progress = 100]_vars

\* The assets of the units whose synthesis succeeded, in the order of the units.
RECURSIVE Succeeded(_, _)
Succeeded(units, synth) ==
    IF units = <<>> \/ synth = <<>> THEN <<>>
    ELSE (IF Head(synth) THEN <<Asset(Head(units))>> ELSE <<>>)
         \o Succeeded(Tail(units), Tail(synth))

\* C7: a generate_tts_task run in which the synthesizer failed for some units
\* and succeeded for others goes through every unit, collects exactly the
\* assets of the successful units (N-1 of them when 1 of N fails), stores that
\* list as story.audio_urls and marks its Job COMPLETED with the length of
\* that list as its result.
C7_PartialSuccess ==
    [][\A w \in Workers :
          LET s == task[w].story_id
              j == task[w].job_id
              units == task[w].units
              failures == Cardinality({i \in 1..Len(task[w].synth) : ~task[w].synth[i]})
          IN /\ (task[w].pc = "t_synth" /\ StepOf(w)
                 /\ OutcomesOf(task'[w].synth) = {TRUE, FALSE})
                => /\ task'[w].pc = IF Len(task'[w].synth) < Len(units)
                                    THEN "t_synth" ELSE "t_save"
                   /\ task'[w].audio_urls = Succeeded(units, task'[w].synth)
             /\ (task[w].pc = "t_save" /\ StepOf(w)
                 /\ OutcomesOf(task[w].synth) = {TRUE, FALSE})
                => /\ Len(task[w].synth) = Len(units)
                   /\ Len(task[w].audio_urls) = Len(units) - failures
                   /\ stories'[s].audio_urls = Some(Succeeded(units, task[w].synth))
                   /\ task'[w].pc = "t_complete"
             /\ (task[w].pc = "t_complete" /\ StepOf(w)
                 /\ OutcomesOf(task[w].synth) = {TRUE, FALSE})
                => /\ Exits(w)
                   /\ jobs'[j].status = "completed"
                   /\ jobs'[j].result # Null
                   /\ jobs'[j].result[1].audio_files_generated = Len(units) - failures]_vars

\* C7 witness: one of the two units of a story failed, the other asset is
\* stored and the Job is COMPLETED with a count of 1.
C7_Witness ==
    \E j \in JobIds :
        LET row == stories[jobs[j].story_id]
        IN /\ jobs[j].job_type = "tts_generation"
           /\ jobs[j].status = "completed"
           /\ jobs[j].result # Null
           /\ jobs[j].result[1].audio_files_generated = 1
           /\ row.story_json # Null
           /\ Len(StoryUnits(row.story_json[1].scenes)) = 2
           /\ row.audio_urls # Null
           /\ Len(row.audio_urls[1]) = 1

\* Every synthesizer call of the run of worker w failed, and every unit was tried.
AllFailed(w) ==
    /\ task[w].synth # <<>>
    /\ Len(task[w].synth) = Len(task[w].units)
    /\ OutcomesOf(task[w].synth) = {FALSE}

\* C8: a generate_tts_task run whose synthesizer calls all failed stores no
\* asset list on the story and ends with its Job FAILED.
C8_AllFail ==
    [][\A w \in Workers :
          (AllFailed(w) /\ StepOf(w))
          => /\ stories' = stories
             /\ Exits(w) => jobs'[task[w].job_id].status = "failed"]_vars

\* C9: a generate_tts_task run that finds the story not COMPLETED, or without
\* generated content, raises at once: it makes no synthesizer call and its Job
\* becomes FAILED.
C9_RejectedRegeneration ==
    [][\A w \in Workers :
          LET row == stories[task[w].story_id]
          IN (task[w].pc = "t_load" /\ StepOf(w)
              /\ (row.status # "completed" \/ row.story_json = Null))
             => task'[w].pc = "t_fail"]_vars

\* C10: a generate_story_task run whose backend calls returned stores the
\* content on the story, which becomes COMPLETED with at least one scene, and
\* marks its Job COMPLETED with progress 100 and the title as its result.
C10_GenerateSuccess ==
    [][\A w \in Workers :
          LET s == task[w].story_id
              j == task[w].job_id
          IN /\ (task[w].pc = "g_save_story" /\ StepOf(w))
                => /\ stories'[s].status = "completed"
                   /\ stories'[s].story_json = task[w].story_content
                   /\ stories'[s].story_json[1].scenes # <<>>
             /\ (task[w].pc = "g_save_job" /\ StepOf(w))
                => /\ jobs'[j].status = "completed"
                   /\ jobs'[j].progress = 100
                   /\ jobs'[j].result # Null
                   /\ jobs'[j].result[1].title = task[w].story_content[1].title]_vars

\* C11: when a backend call of a generate_story_task run fails, the handler
\* marks the Job FAILED with the text of the error and the story FAILED, and
\* the run returns; afterwards the Job stays as it is and no run of it starts
\* again.
C11_GenerateFailure ==
    [][/\ \A w \in Workers :
            LET s == task[w].story_id
                j == task[w].job_id
            IN /\ (task[w].pc = "g_fail" /\ StepOf(w))
                  => /\ jobs'[j].status = "failed"
                     /\ jobs'[j].error_message = Some(task[w].exc)
                     /\ task'[w].pc = "g_fail_story"
               /\ (task[w].pc = "g_fail_story" /\ StepOf(w))
                  => /\ stories'[s].status = "failed"
                     /\ Exits(w)
       /\ \A j \in JobIds :
            (jobs[j].job_type = "story_generation" /\ jobs[j].status = "failed"
             /\ ~Running(j))
            => /\ jobs'[j] = jobs[j]
               /\ \A w \in Workers : task'[w].job_id # j]_vars

\* The steps of generate_tts_task.
TtsSteps == {"t_load", "t_synth", "t_save", "t_complete", "t_fail"}

\* C12: no step of a generate_tts_task run, its start included, changes the
\* status or the story_json (or any column but audio_urls) of a story.
C12_TtsFrame ==
    [][\A w \in Workers :
          ((task[w].pc \in TtsSteps /\ StepOf(w))
           \/ (task[w].pc = "idle" /\ task'[w].pc \in TtsSteps))
          => \A s \in StoryIds :
                /\ stories'[s].status = stories[s].status
                /\ stories'[s].story_json = stories[s].story_json
                /\ [stories'[s] EXCEPT !.audio_urls = Null]
                   = [stories[s] EXCEPT !.audio_urls = Null]]_vars

\* C12 witness: a generate_tts_task run has stored its asset list and marked
\* its Job COMPLETED; the story still has its content.
C12_Witness ==
    \E j \in JobIds :
        LET row == stories[jobs[j].story_id]
        IN /\ jobs[j].job_type = "tts_generation"
           /\ jobs[j].status = "completed"
           /\ ~Running(j)
           /\ row.audio_urls # Null
           /\ row.story_json # Null

\* The steps at which a task calls a generation backend.
BackendCalls == {"g_vision", "g_llm", "t_synth"}

\* C13: of two workers to which the same Job was delivered, at most one has
\* claimed it: two workers are never both at backend calls of the same Job.
C13_AtomicClaim ==
    \A w1 \in Workers, w2 \in Workers :
        (w1 # w2 /\ task[w1].pc \in BackendCalls /\ task[w2].pc \in BackendCalls)
        => task[w1].job_id # task[w2].job_id

\* C17: in every state a story holds generated content (story_json) exactly
\* when its status is COMPLETED.
C17_ContentIffCompleted ==
    \A s \in StoryIds :
        stories[s].status # "absent"
        => (stories[s].story_json # Null <=> stories[s].status = "completed")

\* C18: in every state a Job holds an error_message only if it is FAILED and a
\* result only if it is COMPLETED.
C18_JobFields ==
    \A j \in JobIds :
        jobs[j].status # "absent"
        => /\ jobs[j].error_message # Null => jobs[j].status = "failed"
           /\ jobs[j].result # Null => jobs[j].status = "completed"

\* C19: creating a story stores a PENDING story and a QUEUED Job and only then
\* publishes the message, so every delivery of a generate_story_task message
\* finds its Job QUEUED and its story PENDING.
C19_Submission ==
    [][\A j \in JobIds :
          /\ (queue[j].name = "none" /\ queue'[j].name = "generate_story_task")
             => /\ jobs'[j].status = "queued"
                /\ stories'[queue'[j].story_id].status = "pending"
          /\ (queue[j].name = "generate_story_task"
              /\ queue'[j].deliveries > queue[j].deliveries)
             => /\ jobs[j].status = "queued"
                /\ stories[queue[j].story_id].status = "pending"]_vars

\* C15: a run whose Job exists but whose story is not in the table never marks
\* the Job COMPLETED: it ends in the handler that records the error and marks
\* the Job FAILED.
C15_ContentMissing ==
    [][\A w \in Workers :
          LET j == task[w].job_id
          IN (StepOf(w) /\ task[w].job_found
              /\ stories[task[w].story_id].status \in NoRow)
             => /\ jobs'[j].status # "completed"
                /\ Exits(w) => task[w].pc \in {"g_fail_story", "t_fail"}]_vars

\* The steps at which generate_story_task or generate_tts_task writes a story.
StoryWrites == {"g_save_story", "g_fail_story", "t_save"}

\* C16: a run that finds no Job row for its job id stops there: it reaches no
\* backend call and no write to a story.
C16_JobNotFound ==
    \A w \in Workers :
        (task[w].pc # "idle" /\ ~task[w].job_found)
        => task[w].pc \notin BackendCalls \cup StoryWrites

\* The classes in the order in which their keywords are looked for.
ClassOrder == <<"child", "elderly", "adult_male", "adult_female">>

KeywordsOf(class) ==
    CASE class = "child" -> ChildWords
      [] class = "elderly" -> ElderlyWords
      [] class = "adult_male" -> AdultMaleWords
      [] class = "adult_female" -> AdultFemaleWords

\* The classes of which some keyword occurs in the lower-cased name, by their
\* place in ClassOrder.
MatchingClasses(name) ==
    {i \in 1..Len(ClassOrder) :
        \E word \in KeywordsOf(ClassOrder[i]) : Contains(word, lower(name))}

\* C20: the class returned for a speaker name is the first class, in the order
\* child, elderly, adult_male, adult_female, of which a keyword occurs in the
\* lower-cased name, and narrator when there is none; Little Timmy is child,
\* Grandma Rose elderly, King Arthur adult_male, Queen Mira adult_female and
\* Whiskers the Cat narrator.
C20_VoiceClassification ==
    LET m == MatchingClasses(voice_call.speaker)
    IN voice_call.character_type # ""
       => /\ voice_call.character_type =
                IF m = {} THEN "narrator"
                ELSE ClassOrder[CHOOSE i \in m : \A k \in m : i <= k]
          /\ voice_call.speaker
                = <<"L", "i", "t", "t", "l", "e", " ", "T", "i", "m", "m", "y">>
             => voice_call.character_type = "child"
          /\ voice_call.speaker
                = <<"G", "r", "a", "n", "d", "m", "a", " ", "R", "o", "s", "e">>
             => voice_call.character_type = "elderly"
          /\ voice_call.speaker
                = <<"K", "i", "n", "g", " ", "A", "r", "t", "h", "u", "r">>
             => voice_call.character_type = "adult_male"
          /\ voice_call.speaker
                = <<"Q", "u", "e", "e", "n", " ", "M", "i", "r", "a">>
             => voice_call.character_type = "adult_female"
          /\ voice_call.speaker
                = <<"W", "h", "i", "s", "k", "e", "r", "s", " ", "t", "h", "e", " ",
                    "C", "a", "t">>
             => voice_call.character_type = "narrator"

\* C20 witness: a name in which keywords of two classes occur has been
\* classified (Little King is child, not adult_male).
C20_Witness ==
    /\ voice_call.character_type = "child"
    /\ Cardinality(MatchingClasses(voice_call.speaker)) >= 2
    /\ Contains(<<"k", "i", "n", "g">>, lower(voice_call.speaker))

VoiceIds == {voice_map[l][c] : l \in DOMAIN voice_map, c \in DOMAIN voice_map["en"]}

\* The lower-cased character is the key of some class.
KnownClass(character) == \E c \in DOMAIN voice_map["en"] : Spelling(c) = lower(character)

\* C21: get_voice_for_language returns a voice of the table for every language
\* and character; a language that is not in the table gets the voice that "en"
\* gets for the same character, and a character that is no class of the table
\* gets the narrator voice of the language selected.
C21_VoiceTotal ==
    LET language == voice_call.language
        character == voice_call.character
        selected == IF language \in {"en", "hi", "ta"} THEN language ELSE "en"
    IN voice_call.voice # ""
       => /\ voice_call.voice \in VoiceIds
          /\ language \notin {"en", "hi", "ta"}
             => voice_call.voice = get_voice_for_language("en", character)
          /\ ~KnownClass(character)
             => voice_call.voice = voice_map[selected].narrator
          /\ KnownClass(character)
             => \E c \in DOMAIN voice_map[selected] :
                   /\ Spelling(c) = lower(character)
                   /\ voice_call.voice = voice_map[selected][c]

\* C21 witness: a language that is not in the table was given the "en" voice
\* of the class adult_male.
C21_Witness ==
    /\ voice_call.language = "fr"
    /\ lower(voice_call.character) = Spelling("adult_male")
    /\ voice_call.voice = "en-US-GuyNeural"

\* C30: a speaker name that is just a keyword is classified into the class in
\* whose keyword list it stands (woman and princess are adult_female).
C30_KeywordSelfClassification ==
    \A i \in 1..Len(ClassOrder) :
        (voice_call.character_type # ""
         /\ voice_call.speaker \in KeywordsOf(ClassOrder[i]))
        => voice_call.character_type = ClassOrder[i]

\* C27: a step that deletes a Job row deletes exactly the Jobs that were
\* COMPLETED or FAILED and older than seven days, all of them at once, and
\* leaves every other Job row and every Story row as they were; so no QUEUED
\* or PROCESSING Job is ever deleted, and no Job is deleted in part.
JobsGone == {j \in JobIds : jobs[j].status \notin NoRow /\ jobs'[j].status \in NoRow}

C27_JobGarbageCollection ==
    [][JobsGone # {} =>
          /\ JobsGone = {j \in JobIds : jobs[j].old /\ jobs[j].status \in Terminal}
          /\ \A j \in JobIds \ JobsGone : jobs'[j] = jobs[j]
          /\ stories' = stories]_vars

\* A sweep has deleted a Job and kept an old Job that is still QUEUED.
C27_Witness ==
    \E j, k \in JobIds :
        /\ jobs[j].status = "deleted"
        /\ jobs[k].status = "queued" /\ jobs[k].old
        /\ stories[jobs[k].story_id].status = "completed"

\* C23: a story is stored as generated only from a well-formed reply of the
\* Narrative Generator (parseable, with a title and scenes); a failed call or a
\* reply lacking a part stores nothing, and no default stands in for the part.
WellFormed(reply) ==
    reply.kind = "json" /\ reply.data.title # Null /\ reply.data.scenes # Null

C23_MalformedIsError ==
    \A s \in StoryIds :
        stories[s].story_json # Null =>
            \E reply \in LLMReplies :
                WellFormed(reply) /\ stories[s].story_json = LLMResult(reply)

\* C29: every successful create_story of the story service stores its story
\* under an id that was not a key of stories_db, so the stories stored before
\* are all kept and their number grows by one.
C29_ServiceIdUnique ==
    [][utcnow' # utcnow =>
          /\ \E n \in StoryNumbers : stories_db[n] = Null /\ stories_db'[n] # Null
          /\ \A n \in StoryNumbers : stories_db[n] # Null => stories_db'[n] = stories_db[n]
          /\ DbLen(stories_db') = DbLen(stories_db) + 1]_vars

\* C28: a run of generate_story_task whose input_type is none of scenario,
\* image, characters, or whose payload does not validate, never calls a
\* backend; its only steps are the two of the failure handler, which write
\* FAILED with an error message to the Job and FAILED to the story.
GenerateSteps ==
    {"g_vision", "g_llm", "g_save_story", "g_save_job", "g_fail", "g_fail_story"}

InvalidRun(w) ==
    /\ task[w].pc \in GenerateSteps
    /\ task[w].input_type \notin StoryInputType \/ ~task[w].payload_ok

C28_ClosedDispatch ==
    [][\A w \in Workers :
          /\ \A ok \in BOOLEAN : Dispatch("poem", ok)[1] = "g_fail"
          /\ InvalidRun(w) =>
                /\ task[w].pc \in {"g_fail", "g_fail_story"}
                /\ task[w].exc # ""
                /\ (StepOf(w) /\ task[w].pc = "g_fail") =>
                        /\ jobs'[task[w].job_id].status = "failed"
                        /\ jobs'[task[w].job_id].error_message = Some(task[w].exc)
                        /\ task'[w].pc = "g_fail_story"
                /\ (StepOf(w) /\ task[w].pc = "g_fail_story") =>
                        /\ stories'[task[w].story_id].status = "failed"
                        /\ Exits(w)]_vars

\* A run on a payload that does not validate has ended: Job and story FAILED.
C28_Witness ==
    \E j \in JobIds :
        /\ jobs[j].status = "failed"
        /\ jobs[j].error_message = Some("validation error")
        /\ stories[jobs[j].story_id].status = "failed"
        /\ ~queue[j].payload_ok
        /\ \A w \in Workers : task[w].pc = "idle"

\* C25: a run on an IMAGE input calls the Scene Analyzer once and first, then
\* the Narrative Generator once, with the context the analyzer returned; if
\* the analyzer fails the generator is not called and the run writes FAILED to
\* the Job and to the story. A run on a SCENARIO or CHARACTERS input never
\* calls the analyzer and calls the generator once.
Backends(calls) == [i \in 1..Len(calls) |-> calls[i].backend]

IsPrefix(s, full) == Len(s) <= Len(full) /\ \A i \in 1..Len(s) : s[i] = full[i]

StagesOf(input_type) == IF input_type = "image" THEN <<"vision", "llm">> ELSE <<"llm">>

C25_ImageStageOrder ==
    [][\A w \in Workers :
          LET t == task[w]
              stages == StagesOf(t.input_type)
          IN t.pc \in GenerateSteps =>
                /\ IsPrefix(Backends(t.calls), stages)
                /\ t.pc = "g_vision" => t.calls = <<>>
                /\ t.pc = "g_llm" =>
                        /\ Len(t.calls) = Len(stages) - 1
                        /\ t.input_type = "image" => t.image_context \in ImageContexts
                /\ t.pc \in {"g_save_story", "g_save_job"} =>
                        /\ Backends(t.calls) = stages
                        /\ t.input_type = "image" =>
                               t.calls[2].arg = t.image_context
                /\ t.exc = "Failed to analyze image" =>
                        /\ t.pc \in {"g_fail", "g_fail_story"}
                        /\ Backends(t.calls) = <<"vision">>
                        /\ (StepOf(w) /\ t.pc = "g_fail") =>
                                jobs'[t.job_id].status = "failed"
                        /\ (StepOf(w) /\ t.pc = "g_fail_story") =>
                                stories'[t.story_id].status = "failed" /\ Exits(w)]_vars

\* A run on an image has called both backends, and another has stopped at the
\* analyzer's failure.
C25_Witness ==
    \E w, v \in Workers :
        /\ task[w].input_type = "image" /\ task[w].pc = "g_save_job"
        /\ Len(task[w].calls) = 2
        /\ task[v].exc = "Failed to analyze image" /\ task[v].pc = "g_fail_story"

\* C26: in a run of generate_story_task the progress of the Job row is 10
\* once it is PROCESSING, at least 30 once the Scene Analyzer has returned, at
\* least 60 (IMAGE) and 80 once the Narrative Generator has returned and the
\* story is about to be saved, and 100 at the end.
C26_ProgressCheckpoints ==
    \A w \in Workers :
        LET t == task[w]
            progress == jobs[t.job_id].progress
        IN (t.pc \in GenerateSteps /\ t.job_found) =>
              /\ progress >= 10
              /\ (t.input_type = "image" /\ t.pc = "g_llm") => progress >= 30
              /\ (t.input_type = "image" /\ t.pc = "g_save_story") => progress >= 60
              /\ t.pc = "g_save_story" => progress >= 80

\* C22: two runs of generate_tts_task on the same story content whose requests
\* differ in the voice preset or in the emotion synthesize with different
\* voices or emotions.
Done(w) == task[w].pc \in {"t_save", "t_complete"} /\ task[w].calls # <<>>

SynthesizedWith(w) ==
    [i \in 1..Len(task[w].calls) |-> <<task[w].calls[i].voice, task[w].calls[i].emotion>>]

C22_VoiceOverride ==
    \A w, v \in Workers :
        (/\ Done(w) /\ Done(v)
         /\ task[w].story_content = task[v].story_content
         /\ <<task[w].voice_preset, task[w].emotion>> # <<task[v].voice_preset, task[v].emotion>>)
        => SynthesizedWith(w) # SynthesizedWith(v)

\* C24: a run of generate_tts_task calls the Speech Synthesizer once for each
\* non-empty narration and once for each dialogue line of the story, scene by
\* scene in story order, the narration of a scene before its dialogue lines
\* and these in list order; the list it stores is the list of the calls that
\* returned a file, in the order made.
ScenePosition(scenes, id) == CHOOSE k \in 1..Len(scenes) : scenes[k].id = id

\* The place of a call in the order claimed: scene, then narration, then line.
Rank(scenes, asset) ==
    <<ScenePosition(scenes, asset.scene),
      IF asset.kind = "narration" THEN 0 ELSE asset.index + 1>>

Before(r, s) == r[1] < s[1] \/ (r[1] = s[1] /\ r[2] < s[2])

\* One asset for each narration block and each dialogue line of the story.
AssetsOf(scenes) ==
    {[scene |-> scenes[k].id, kind |-> "narration", index |-> 0] :
        k \in {n \in 1..Len(scenes) : scenes[n].narration # ""}}
    \cup UNION {{[scene |-> scenes[k].id, kind |-> "dialogue", index |-> i - 1] :
                    i \in 1..Len(scenes[k].dialogue)} : k \in 1..Len(scenes)}

RECURSIVE Successful(_, _)
Successful(calls, synth) ==
    IF calls = <<>> THEN <<>>
    ELSE (IF Head(synth) THEN <<Head(calls).unit[1]>> ELSE <<>>)
         \o Successful(Tail(calls), Tail(synth))

C24_SynthesisOrder ==
    [][\A w \in Workers :
          LET t == task[w]
              scenes == t.story_content[1].scenes
              made == {t.calls[i].unit[1] : i \in 1..Len(t.calls)}
          IN t.pc \in {"t_synth", "t_save", "t_complete"} =>
                /\ Len(t.synth) = Len(t.calls)
                /\ made \subseteq AssetsOf(scenes)
                /\ \A i, k \in 1..Len(t.calls) :
                      i < k => Before(Rank(scenes, t.calls[i].unit[1]),
                                      Rank(scenes, t.calls[k].unit[1]))
                /\ \A a \in AssetsOf(scenes) \ made, b \in made :
                      Before(Rank(scenes, b), Rank(scenes, a))
                /\ t.pc \in {"t_save", "t_complete"} => made = AssetsOf(scenes)
                /\ (t.pc = "t_save" /\ StepOf(w)) =>
                      stories'[t.story_id].audio_urls = Some(Successful(t.calls, t.synth))]_vars

\* A run on the story of two scenes has stored three of its four files, the
\* second call having failed.
C24_Witness ==
    \E w \in Workers :
        /\ task[w].pc = "t_complete"
        /\ task[w].synth = <<TRUE, FALSE, TRUE, TRUE>>
        /\ stories[task[w].story_id].audio_urls = Some(task[w].audio_urls)
        /\ Len(task[w].audio_urls) = 3

====
